---- MODULE Spec2Model ----
(***************************************************************************)
(* Model of the faculty-evaluation API (src/api/main.py): the four routes  *)
(* GET /, POST /comments/, POST /upload/ and POST /summarize/, each behind *)
(* its per-caller rate limit.                                              *)
(*                                                                         *)
(* Text is a sequence of code points, a file is a sequence of bytes.  The  *)
(* pretrained classifiers and the LLM are outside the repository: a call   *)
(* to one of them either returns a value determined by its argument or     *)
(* raises, as fixed by the environment `env` for the whole behaviour.      *)
(***************************************************************************)
EXTENDS Integers, Sequences, FiniteSets, TLC

VARIABLES
    env,          \* the external services: which classifier call raises, what the LLM does
    now,          \* the clock, in seconds
    storage,      \* limiter: hits counted per (caller, route) in its current window
    expirations,  \* limiter: the time the window of a (caller, route) ends
    inbox,        \* the request in flight: a sequence of at most one request
    req,          \* the request answered last
    resp,         \* the response to it
    effects,      \* the classifier and LLM calls made while answering it
    handled,      \* access log: per (caller, route), when its handler ran in the last minute
    seen          \* history: the first request whose handler ran, with its response

vars == <<env, now, storage, expirations, inbox, req, resp, effects, handled, seen>>


----------------------------------------------------------------------------
(* Text helpers: Python's str methods, on sequences of code points.        *)

Range(s) == {s[i] : i \in 1..Len(s)}

Max(S) == CHOOSE x \in S : \A y \in S : y <= x

Min(S) == CHOOSE x \in S : \A y \in S : x <= y

\* str.isspace, for the code points below 256
IsSpace(c) == c \in (9..13) \cup (28..32) \cup {133, 160}

\* str.lower, for the code points below 256
LowerChar(c) ==
    IF (c >= 65 /\ c <= 90) \/ (c >= 192 /\ c <= 222 /\ c # 215) THEN c + 32 ELSE c

Lower(s) == [i \in 1..Len(s) |-> LowerChar(s[i])]

\* a strip that is left out
StripNothing(s) == s

\* str.strip(): drop the leading and the trailing whitespace
Strip(s) ==
    LET keep == {i \in 1..Len(s) : ~IsSpace(s[i])}
    IN  IF keep = {} THEN <<>> ELSE SubSeq(s, Min(keep), Max(keep))

\* str.endswith
EndsWith(s, suffix) ==
    /\ Len(s) >= Len(suffix)
    /\ SubSeq(s, Len(s) - Len(suffix) + 1, Len(s)) = suffix

\* sep.join(parts)
RECURSIVE Join(_, _)
Join(parts, sep) ==
    IF parts = <<>> THEN <<>>
    ELSE IF Len(parts) = 1 THEN parts[1]
    ELSE parts[1] \o sep \o Join(Tail(parts), sep)

\* the pieces of s between the occurrences of sep (always at least one piece)
RECURSIVE Split(_, _)
Split(s, sep) ==
    LET at == {i \in 1..Len(s) : s[i] = sep}
    IN  IF at = {} THEN <<s>>
        ELSE <<SubSeq(s, 1, Min(at) - 1)>> \o Split(SubSeq(s, Min(at) + 1, Len(s)), sep)

----------------------------------------------------------------------------
(* bytes.decode("utf-8"): strict UTF-8.                                    *)

IsCont(b) == b >= 128 /\ b <= 191

\* the number of bytes of the sequence that starts at bs[i], 0 when it is ill-formed
Utf8Width(bs, i) ==
    LET b == bs[i]
        n == Len(bs)
    IN  IF b <= 127 THEN 1
        ELSE IF b >= 194 /\ b <= 223
            THEN IF i + 1 <= n /\ IsCont(bs[i + 1]) THEN 2 ELSE 0
        ELSE IF b >= 224 /\ b <= 239
            THEN IF /\ i + 2 <= n
                    /\ IsCont(bs[i + 1]) /\ IsCont(bs[i + 2])
                    /\ (b = 224 => bs[i + 1] >= 160)
                    /\ (b = 237 => bs[i + 1] <= 159)
                 THEN 3 ELSE 0
        ELSE IF b >= 240 /\ b <= 244
            THEN IF /\ i + 3 <= n
                    /\ IsCont(bs[i + 1]) /\ IsCont(bs[i + 2]) /\ IsCont(bs[i + 3])
                    /\ (b = 240 => bs[i + 1] >= 144)
                    /\ (b = 244 => bs[i + 1] <= 143)
                 THEN 4 ELSE 0
        ELSE 0

Utf8Point(bs, i, w) ==
    IF w = 1 THEN bs[i]
    ELSE IF w = 2 THEN (bs[i] - 192) * 64 + (bs[i + 1] - 128)
    ELSE IF w = 3 THEN (bs[i] - 224) * 4096 + (bs[i + 1] - 128) * 64 + (bs[i + 2] - 128)
    ELSE (bs[i] - 240) * 262144 + (bs[i + 1] - 128) * 4096
         + (bs[i + 2] - 128) * 64 + (bs[i + 3] - 128)

\* [ok, text]: the decoded text, ok = FALSE where the code raises UnicodeDecodeError
RECURSIVE Utf8From(_, _)
Utf8From(bs, i) ==
    IF i > Len(bs) THEN [ok |-> TRUE, text |-> <<>>]
    ELSE LET w == Utf8Width(bs, i)
         IN  IF w = 0 THEN [ok |-> FALSE, text |-> <<>>]
             ELSE LET rest == Utf8From(bs, i + w)
                  IN  IF ~rest.ok THEN rest
                      ELSE [ok |-> TRUE, text |-> <<Utf8Point(bs, i, w)>> \o rest.text]

\* a decoder that takes every byte for a character (latin-1) and never fails
Latin1Decode(bs) == [ok |-> TRUE, text |-> bs]

Utf8Decode(bs) == Utf8From(bs, 1)

----------------------------------------------------------------------------
(* csv.DictReader over StringIO(text), for text without quote characters   *)
(* and carriage returns (the inputs below hold none).                      *)

Newline == 10
Comma == 44

\* the lines StringIO yields: the text cut after each newline, no empty last line
Lines(text) ==
    LET pieces == Split(text, Newline)
    IN  IF pieces[Len(pieces)] = <<>> THEN SubSeq(pieces, 1, Len(pieces) - 1) ELSE pieces

\* csv.reader: an empty line is the row [], any other line is cut at the commas
ParseLine(line) == IF line = <<>> THEN <<>> ELSE Split(line, Comma)

CsvRows(text) == LET ls == Lines(text) IN [i \in 1..Len(ls) |-> ParseLine(ls[i])]

\* DictReader.fieldnames: the first row read, [] as well when there is none
\* (the code tests only `not fieldnames`, true of None and of [])
Fieldnames(text) == LET rs == CsvRows(text) IN IF rs = <<>> THEN <<>> ELSE rs[1]

\* DictReader.__next__ skips every row that is []
RECURSIVE DropEmpty(_)
DropEmpty(rs) ==
    IF rs = <<>> THEN <<>>
    ELSE IF rs[1] = <<>> THEN DropEmpty(Tail(rs))
    ELSE <<rs[1]>> \o DropEmpty(Tail(rs))

DataRows(text) == LET rs == CsvRows(text) IN IF rs = <<>> THEN <<>> ELSE DropEmpty(Tail(rs))

\* row.get(name) of the dict DictReader builds, d = dict(zip(fieldnames, row)) and
\* then d[key] = None for every key of fieldnames[len(row):]: [none, text].
\* A later column of the same name overwrites an earlier one.
RowGet(fieldnames, row, name) ==
    LET cols == {i \in 1..Len(fieldnames) : fieldnames[i] = name}
    IN  IF \E i \in cols : i > Len(row) THEN [none |-> TRUE, text |-> <<>>]
        ELSE [none |-> FALSE, text |-> row[Max(cols)]]

----------------------------------------------------------------------------
(* The external services.                                                  *)

\* nlp.py: the three pretrained classifiers, in the order the handlers call them
Analyzers == <<"sentiment", "hate", "danger">>

\* what a classifier returns for a text: a value fixed by the classifier and the text
Predict(analyzer, text) == [model |-> analyzer, of |-> text]

\* danger_analyzer is a transformers pipeline: it returns a list of one result
DangerPipeline(text) == <<Predict("danger", text)>>

\* the three predict calls on one text, in order, up to the first that raises:
\* [raised, calls, sentiment, hate, danger]
Classify(text) ==
    LET bad  == {i \in 1..3 : <<Analyzers[i], text>> \in env.unfit}
        last == IF bad = {} THEN 3 ELSE Min(bad)
    IN  [raised    |-> bad # {},
         calls     |-> [i \in 1..last |-> [svc |-> Analyzers[i], arg |-> text]],
         sentiment |-> Predict("sentiment", text),
         hate      |-> Predict("hate", text),
         danger    |-> DangerPipeline(text)[1]]

----------------------------------------------------------------------------
(* The handlers: each yields [resp, effects].                              *)

Reply(status, body, calls) == [resp |-> [status |-> status, body |-> body], effects |-> calls]

\* raise HTTPException(status_code, detail)
HttpError(status, detail, calls) == Reply(status, [detail |-> detail], calls)

\* an exception no handler catches: the framework answers 500
ServerError(calls) == HttpError(500, "Internal Server Error", calls)

root == Reply(200, [message |-> "Hello World"], <<>>)

\* a handler that echoes the content stripped
analyze_comment_stripped(comment) ==
    LET c == Classify(comment.content)
    IN  IF c.raised THEN ServerError(c.calls)
        ELSE Reply(200,
                   [comment   |-> Strip(comment.content),
                    sentiment |-> c.sentiment,
                    hate      |-> c.hate,
                    danger    |-> c.danger,
                    status    |-> "Comment created successfully"],
                   c.calls)

analyze_comment(comment) ==
    LET c == Classify(comment.content)
    IN  IF c.raised THEN ServerError(c.calls)
        ELSE Reply(200,
                   [comment   |-> comment.content,
                    sentiment |-> c.sentiment,
                    hate      |-> c.hate,
                    danger    |-> c.danger,
                    status    |-> "Comment created successfully"],
                   c.calls)

CsvSuffix == <<46, 99, 115, 118>>    \* ".csv"

\* ["comment", "content", "text", "body"]
CommentHeaders ==
    { <<99, 111, 109, 109, 101, 110, 116>>,
      <<99, 111, 110, 116, 101, 110, 116>>,
      <<116, 101, 120, 116>>,
      <<98, 111, 100, 121>> }

\* next((name for name in fieldnames if name.lower() in [...]), None), and
\* fieldnames[0] when that is None or empty
CommentField(fieldnames) ==
    LET hits  == {i \in 1..Len(fieldnames) : Lower(fieldnames[i]) \in CommentHeaders}
        found == IF hits = {} THEN <<>> ELSE fieldnames[Min(hits)]
    IN  IF hits = {} \/ found = <<>> THEN fieldnames[1] ELSE found

\* a results list that outlives the request: what the last upload returned
StaleResults ==
    IF resp.status = 200 /\ "results" \in DOMAIN resp.body THEN resp.body.results ELSE <<>>

\* results = []
NewResults == <<>>

\* for row in reader: ... from row i on; [raised, results, calls]
RECURSIVE RowLoop(_, _, _, _, _, _)
RowLoop(fieldnames, rows, i, comment_field, results, calls) ==
    IF i > Len(rows) THEN [raised |-> "", results |-> results, calls |-> calls]
    ELSE LET cell == RowGet(fieldnames, rows[i], comment_field)
         IN  IF cell.none
             THEN \* None.strip()
                  [raised |-> "AttributeError", results |-> results, calls |-> calls]
             ELSE LET comment_text == Strip(cell.text)
                  IN  IF comment_text = <<>>
                      THEN RowLoop(fieldnames, rows, i + 1, comment_field, results, calls)
                      ELSE LET c == Classify(comment_text)
                           IN  IF c.raised
                               THEN [raised  |-> "RuntimeError",
                                     results |-> results,
                                     calls   |-> calls \o c.calls]
                               ELSE RowLoop(fieldnames, rows, i + 1, comment_field,
                                            Append(results,
                                                   [comment   |-> comment_text,
                                                    sentiment |-> c.sentiment,
                                                    hate      |-> c.hate,
                                                    danger    |-> c.danger]),
                                            calls \o c.calls)

analyze_csv(file) ==
    IF ~EndsWith(file.filename, CsvSuffix)
    THEN HttpError(400, "Invalid file type. Please upload a CSV file.", <<>>)
    ELSE LET decoded == Utf8Decode(file.content)
         IN  IF ~decoded.ok
             THEN HttpError(400, "Invalid file encoding. Please use UTF-8.", <<>>)
             ELSE LET fieldnames == Fieldnames(decoded.text)
                  IN  IF fieldnames = <<>>
                      THEN \* HTTPException(400, "Empty CSV file"), caught by except Exception
                           HttpError(400, "Error parsing CSV: 400: Empty CSV file", <<>>)
                      ELSE LET loop == RowLoop(fieldnames, DataRows(decoded.text), 1,
                                               CommentField(fieldnames), NewResults, <<>>)
                           IN  IF loop.raised # ""
                               THEN HttpError(400, "Error parsing CSV: " \o loop.raised,
                                              loop.calls)
                               ELSE Reply(200,
                                          [filename |-> file.filename,
                                           results  |-> loop.results,
                                           status   |-> "CSV analyzed successfully"],
                                          loop.calls)

\* the instruction block of SUMMARIZE_PROMPT, as one symbol
Instructions == 0

\* SUMMARIZE_PROMPT: the instructions, then the placeholder "{}"
SUMMARIZE_PROMPT == <<Instructions, 123, 125>>

\* str.format with one positional argument: the first "{}" is replaced
Format(template, arg) ==
    LET at == {i \in 1..(Len(template) - 1) : template[i] = 123 /\ template[i + 1] = 125}
    IN  IF at = {} THEN template
        ELSE SubSeq(template, 1, Min(at) - 1) \o arg
             \o SubSeq(template, Min(at) + 2, Len(template))

\* a separator without the space
CommaOnly == <<44>>

CommaSpace == <<44, 32>>    \* ", "

\* ollama.chat(model="gemma3", messages=[{"role": "user", "content": prompt}])
ChatCall(prompt) ==
    [svc |-> "ollama.chat", model |-> "gemma3",
     messages |-> <<[role |-> "user", content |-> prompt]>>]

\* except clauses in the wrong order: `except Exception` first, so every failure is a 500
SummarizeCatchAll(comments) ==
    LET prompt == Format(SUMMARIZE_PROMPT, Join(comments, CommaSpace))
        calls  == <<ChatCall(prompt)>>
    IN  IF env.llm.kind # "ok"
        THEN HttpError(500, "Error generating summary: " \o env.llm.kind, calls)
        ELSE Reply(200,
                   [summary        |-> env.llm.text,
                    total_comments |-> Len(comments),
                    status         |-> "Summary generated successfully"],
                   calls)

\* the try block of summarize_comments and its two except clauses
Summarize(comments) ==
    LET comments_text == Join(comments, CommaSpace)
        prompt        == Format(SUMMARIZE_PROMPT, comments_text)
        calls         == <<ChatCall(prompt)>>
    IN  IF env.llm.kind = "ResponseError"
        THEN HttpError(503, "Ollama service error", calls)
        ELSE IF env.llm.kind # "ok"
        THEN HttpError(500, "Error generating summary: " \o env.llm.kind, calls)
        ELSE Reply(200,
                   [summary        |-> env.llm.text,
                    total_comments |-> Len(comments),
                    status         |-> "Summary generated successfully"],
                   calls)

\* a handler without the test for the empty list
summarize_unchecked(comment_list) == Summarize(comment_list.comments)

summarize_comments(comment_list) ==
    IF comment_list.comments = <<>>
    THEN HttpError(400, "No comments provided", <<>>)
    ELSE Summarize(comment_list.comments)

----------------------------------------------------------------------------
(* The rate limiter: Limiter(key_func=get_remote_address) with the default *)
(* fixed-window strategy over in-memory storage.                           *)

RootLimit == 60
CommentsLimit == 30
UploadLimit == 10
SummarizeLimit == 5
Minute == 60

Routes == {"root", "comments", "upload", "summarize"}

\* the @limiter.limit(...) of each route
LimitOf(route) ==
    CASE route = "root"      -> RootLimit
      [] route = "comments"  -> CommentsLimit
      [] route = "upload"    -> UploadLimit
      [] route = "summarize" -> SummarizeLimit

Clients == {"10.0.0.1", "10.0.0.2"}

Keys == Clients \X Routes

\* one counter per caller address, shared by the routes
KeyByIp(r) == <<r.ip, "root">>

\* key_func and the route's scope: one counter per caller address and route
KeyOf(r) == <<r.ip, r.route>>

\* the window of k is over (or was never opened)
Expired(k, t) == expirations[k] <= t

\* the counter of k after one more hit at the current time
HitCount(k) == (IF Expired(k, now) THEN 0 ELSE storage[k]) + 1

\* the hit is within the limit
Allowed(k, limit) == HitCount(k) <= limit

\* storage.incr: count the hit, and open a window of one minute at the first
Hit(k) ==
    /\ storage' = [storage EXCEPT ![k] = HitCount(k)]
    /\ expirations' = [expirations EXCEPT ![k] = IF HitCount(k) = 1 THEN now + Minute ELSE @]

\* _rate_limit_exceeded_handler
TooManyRequests == HttpError(429, "Rate limit exceeded", <<>>)

\* request validation by the framework, before the route's function is entered
UnprocessableEntity == HttpError(422, "Field required", <<>>)

----------------------------------------------------------------------------
(* The routes.  `out` is what the handler yields for r; `log` says whether *)
(* the history variable `seen` is kept.                                    *)

Answer(r, out) ==
    /\ req' = r
    /\ resp' = out.resp
    /\ effects' = out.effects

Remember(r, out, log) ==
    seen' = IF log /\ seen = <<>> THEN <<[req |-> r, resp |-> out.resp]>> ELSE seen

\* the access log with one more request at time t: entries [at, n], newest last
Logged(log, t) ==
    IF log # <<>> /\ log[Len(log)].at = t
    THEN [log EXCEPT ![Len(log)].n = @ + 1]
    ELSE Append(log, [at |-> t, n |-> 1])

\* a request the framework rejects: the route's function, limiter included, never runs
Rejected(r) ==
    /\ Answer(r, UnprocessableEntity)
    /\ UNCHANGED <<env, now, storage, expirations, handled, seen>>

\* the route's function under its limit decorator
Limited(r, out, log) ==
    LET k == KeyOf(r)
    IN  /\ Hit(k)
        /\ IF Allowed(k, LimitOf(r.route))
           THEN /\ Answer(r, out)
                /\ handled' = [handled EXCEPT ![k] = Logged(@, now)]
                /\ Remember(r, out, log)
           ELSE /\ Answer(r, TooManyRequests)
                /\ UNCHANGED <<handled, seen>>
        /\ UNCHANGED <<env, now>>

GetRoot(r, log) ==
    /\ r.route = "root"
    /\ Limited(r, root, log)

PostComments(r, log) ==
    /\ r.route = "comments"
    /\ IF "content" \in DOMAIN r.body
       THEN Limited(r, analyze_comment(r.body), log)
       ELSE Rejected(r)

PostUpload(r, log) ==
    /\ r.route = "upload"
    /\ Limited(r, analyze_csv(r.body), log)

PostSummarize(r, log) ==
    /\ r.route = "summarize"
    /\ IF "comments" \in DOMAIN r.body
       THEN Limited(r, summarize_comments(r.body), log)
       ELSE Rejected(r)

----------------------------------------------------------------------------
(* The inputs.                                                             *)

MaxRows == 2        \* data lines of an uploaded file
MaxComments == 3    \* comments of a summarize request
MaxTicks == 2       \* clock steps of a behaviour
Step == 30          \* seconds per clock step
MaxOver == 2        \* requests sent to a route past its limit, per window
MaxLight == 1       \* requests the second caller has counted on a route
MaxTraffic == 6     \* requests counted at once, in the specification with payloads

\* str.encode("utf-8"), for code points below 2048: how the files below are written
RECURSIVE Utf8Encode(_)
Utf8Encode(text) ==
    IF text = <<>> THEN <<>>
    ELSE (IF text[1] < 128 THEN <<text[1]>>
          ELSE <<192 + (text[1] \div 64), 128 + (text[1] % 64)>>) \o Utf8Encode(Tail(text))

SeqsUpTo(S, n) == UNION {[1..m -> S] : m \in 0..n}

\* "a.csv", "a.CSV", "csv"
Filenames == { <<97, 46, 99, 115, 118>>, <<97, 46, 67, 83, 86>>, <<99, 115, 118>> }

Name_id == <<105, 100>>
Name_Text == <<84, 101, 120, 116>>
Name_BODY == <<66, 79, 68, 89>>
Name_note == <<110, 111, 116, 101>>

\* header rows: a match in the second column, two matches, one name twice, no match,
\* one column, and the empty header row
Headers ==
    { <<Name_id, Name_Text>>, <<Name_BODY, Name_Text>>, <<Name_Text, Name_Text>>,
      <<Name_id, Name_note>>, <<Name_BODY>>, <<Name_id>>, <<>> }

\* cell values: " ", " é" and "ok "
Cells == { <<32>>, <<32, 233>>, <<111, 107, 32>> }

\* data rows no wider than the widest header; the row of no cell is a blank line
Rows == SeqsUpTo(Cells, Max({Len(h) : h \in Headers}))

WriteRow(row) == Join(row, <<Comma>>) \o <<Newline>>

RECURSIVE WriteRows(_)
WriteRows(rows) == IF rows = <<>> THEN <<>> ELSE WriteRow(rows[1]) \o WriteRows(Tail(rows))

\* the files: each table written as UTF-8, alone, cut inside a two-byte sequence,
\* and behind a byte that starts no sequence
Files(n) ==
    LET clean == {Utf8Encode(WriteRow(h) \o WriteRows(rows)) :
                      h \in Headers, rows \in SeqsUpTo(Rows, n)} \cup {<<>>}
    IN  clean \cup {c \o <<195>> : c \in clean} \cup {<<255>> \o c : c \in clean}

UploadOf(f, c) ==
    [ip |-> "10.0.0.1", route |-> "upload", body |-> [filename |-> f, content |-> c]]

\* every file under the name "a.csv", the files of at most one data line under the others
Uploads ==
    {UploadOf(<<97, 46, 99, 115, 118>>, c) : c \in Files(MaxRows)}
    \cup {UploadOf(f, c) : f \in Filenames, c \in Files(1)}

\* every classifier works, or one fails on one text ("ok", "é")
ClassifierEnvs ==
    {[unfit |-> u, llm |-> [kind |-> "ok", text |-> <<82>>]] :
         u \in {{}, {<<"hate", <<111, 107>>>>}, {<<"danger", <<233>>>>}}}

\* the LLM answers, refuses (ollama.ResponseError), is unreachable, or answers
\* without a message content
LlmEnvs ==
    {[unfit |-> {}, llm |-> l] :
         l \in {[kind |-> "ok", text |-> <<82>>], [kind |-> "ok", text |-> <<>>],
                [kind |-> "ResponseError", text |-> <<>>],
                [kind |-> "ConnectionError", text |-> <<>>],
                [kind |-> "KeyError", text |-> <<>>]}}

\* a JSON body without the field the route's model requires
EmptyObject == <<>>

\* contents: the cell values, "" and "ok"
CommentBodies == {EmptyObject} \cup {[content |-> c] : c \in Cells \cup {<<>>, <<111, 107>>}}

\* comments: "a", "b, c" (holding the separator) and "{}" (the placeholder)
CommentTexts == { <<97>>, <<98, 44, 32, 99>>, <<123, 125>> }

SummarizeBodies == {EmptyObject} \cup {[comments |-> l] : l \in SeqsUpTo(CommentTexts, MaxComments)}

OneRequest ==
    Uploads
    \cup {[ip |-> "10.0.0.1", route |-> "comments", body |-> b] : b \in CommentBodies}
    \cup {[ip |-> "10.0.0.1", route |-> "summarize", body |-> b] : b \in SummarizeBodies}
    \cup {[ip |-> "10.0.0.1", route |-> "root", body |-> EmptyObject]}

----------------------------------------------------------------------------
(* The server.                                                             *)

NoRequest == [ip |-> "", route |-> "", body |-> EmptyObject]

NoResponse == [status |-> 0, body |-> EmptyObject]

Fresh ==
    /\ now = 0
    /\ storage = [k \in Keys |-> 0]
    /\ expirations = [k \in Keys |-> 0]
    /\ req = NoRequest
    /\ resp = NoResponse
    /\ effects = <<>>
    /\ handled = [k \in Keys |-> <<>>]
    /\ seen = <<>>

\* time passes; the storage's timer drops the windows that are over
Tick ==
    /\ now < MaxTicks * Step
    /\ now' = now + Step
    /\ storage' = [k \in Keys |-> IF Expired(k, now') THEN 0 ELSE storage[k]]
    /\ expirations' = [k \in Keys |-> IF Expired(k, now') THEN 0 ELSE expirations[k]]
    /\ handled' = [k \in Keys |->
                      SelectSeq(handled[k], LAMBDA e : now' - e.at < Minute)]
    /\ UNCHANGED <<env, inbox, req, resp, effects, seen>>

(* One request to a server just started. *)

InitRequest ==
    /\ Fresh
    /\ inbox \in [1..1 -> OneRequest]
    /\ env \in (IF inbox[1].route = "summarize" THEN LlmEnvs ELSE ClassifierEnvs)

TakeRoot == inbox # <<>> /\ GetRoot(inbox[1], FALSE) /\ inbox' = <<>>
TakeComments == inbox # <<>> /\ PostComments(inbox[1], FALSE) /\ inbox' = <<>>
TakeUpload == inbox # <<>> /\ PostUpload(inbox[1], FALSE) /\ inbox' = <<>>
TakeSummarize == inbox # <<>> /\ PostSummarize(inbox[1], FALSE) /\ inbox' = <<>>

NextRequest == TakeRoot \/ TakeComments \/ TakeUpload \/ TakeSummarize

SpecRequest == InitRequest /\ [][NextRequest]_vars

(* A server under a burst of traffic: requests with payloads, within one minute. *)

\* "id,Text\n, \nx,ok \n": a row with a blank comment cell, then a row with a comment
TwoLineFile == <<105, 100, 44, 84, 101, 120, 116, 10, 44, 32, 10, 120, 44, 111, 107, 32, 10>>

\* "id,Text\nx,ok \nx\n": a row with a comment, then a row without the comment cell
ShortLineFile == <<105, 100, 44, 84, 101, 120, 116, 10, 120, 44, 111, 107, 32, 10, 120, 10>>

Payloads(route) ==
    CASE route = "root"      -> {EmptyObject}
      [] route = "comments"  -> {[content |-> <<111, 107>>], [content |-> <<32>>]}
      [] route = "upload"    -> {[filename |-> <<97, 46, 99, 115, 118>>, content |-> TwoLineFile],
                                 [filename |-> <<97, 46, 99, 115, 118>>, content |-> ShortLineFile]}
      [] route = "summarize" -> {[comments |-> <<>>], [comments |-> <<<<97>>, <<98, 44, 32, 99>>>>]}

Traffic(route) == {[ip |-> c, route |-> route, body |-> b] : c \in Clients, b \in Payloads(route)}

ServerEnvs == { [unfit |-> {}, llm |-> [kind |-> "ok", text |-> <<82>>]] }

RECURSIVE CountedIn(_)
CountedIn(S) ==
    IF S = {} THEN 0
    ELSE LET k == CHOOSE x \in S : TRUE IN storage[k] + CountedIn(S \ {k})

\* the hits counted in open windows
Counted == CountedIn(Keys)

InitServer ==
    /\ Fresh
    /\ inbox = <<>>
    /\ env \in ServerEnvs

Root == \E r \in Traffic("root") :
    Counted < MaxTraffic /\ GetRoot(r, TRUE) /\ UNCHANGED inbox

Comments == \E r \in Traffic("comments") :
    Counted < MaxTraffic /\ PostComments(r, TRUE) /\ UNCHANGED inbox

Upload == \E r \in Traffic("upload") :
    Counted < MaxTraffic /\ PostUpload(r, TRUE) /\ UNCHANGED inbox

Summary == \E r \in Traffic("summarize") :
    Counted < MaxTraffic /\ PostSummarize(r, TRUE) /\ UNCHANGED inbox

NextServer == Root \/ Comments \/ Upload \/ Summary

SpecServer == InitServer /\ [][NextServer]_vars

(* The limiter under load: one valid payload per route, two callers, and  *)
(* the clock.  One caller drives a route past its limit while the other    *)
(* caller is in light use.                                                 *)

Load(route) ==
    CASE route = "root"      -> EmptyObject
      [] route = "comments"  -> [content |-> <<111, 107>>]
      [] route = "upload"    -> [filename |-> <<97, 46, 99, 115, 118>>, content |-> TwoLineFile]
      [] route = "summarize" -> [comments |-> <<<<97>>>>]

Calls(route) == {[ip |-> c, route |-> route, body |-> Load(route)] : c \in Clients}

\* the counters once r is counted
After(r) == [storage EXCEPT ![KeyOf(r)] = HitCount(KeyOf(r))]

\* the requests of the log
RECURSIVE Total(_)
Total(log) == IF log = <<>> THEN 0 ELSE log[1].n + Total(Tail(log))

\* a caller-route in use: requests counted in its window or logged in the last minute
InUse(k) == storage[k] > 0 \/ handled[k] # <<>>

\* the traffic explored: each caller uses one route at a time; the first caller sends
\* it up to MaxOver requests beyond its limit in a window or in a minute, the second
\* caller has at most MaxLight requests counted
Admit(r) ==
    /\ After(r)[KeyOf(r)] <= LimitOf(r.route) + MaxOver
    /\ Total(handled[KeyOf(r)]) < LimitOf(r.route) + MaxOver
    /\ \A k \in Keys \ {KeyOf(r)} : k[1] = r.ip => ~InUse(k)
    /\ r.ip # "10.0.0.1" => After(r)[KeyOf(r)] <= MaxLight

CallRoot == \E r \in Calls("root") : Admit(r) /\ GetRoot(r, FALSE) /\ UNCHANGED inbox

CallComments == \E r \in Calls("comments") : Admit(r) /\ PostComments(r, FALSE) /\ UNCHANGED inbox

CallUpload == \E r \in Calls("upload") : Admit(r) /\ PostUpload(r, FALSE) /\ UNCHANGED inbox

CallSummarize == \E r \in Calls("summarize") : Admit(r) /\ PostSummarize(r, FALSE) /\ UNCHANGED inbox

NextLimiter == Tick \/ CallRoot \/ CallComments \/ CallUpload \/ CallSummarize

SpecLimiter == InitServer /\ [][NextLimiter]_vars

----------------------------------------------------------------------------
(* What the claims speak of, stated apart from the handlers' code.         *)

\* the last request reached the route's function (it passed validation and the limiter)
Ran(route) == req.route = route /\ resp.status \notin {422, 429}

\* t is s without its leading and trailing whitespace
IsStripOf(t, s) ==
    \E a \in 0..Len(s) :
        /\ a + Len(t) <= Len(s)
        /\ \A i \in 1..Len(t) : t[i] = s[a + i]
        /\ \A i \in 1..Len(s) : (i <= a \/ i > a + Len(t)) => IsSpace(s[i])
        /\ t # <<>> => ~IsSpace(t[1]) /\ ~IsSpace(t[Len(t)])

\* the uploaded file as the handler reads it
UploadedText == Utf8Decode(req.body.content).text
UploadedHeader == Fieldnames(UploadedText)
UploadedLines == Tail(CsvRows(UploadedText))

\* the first column whose lower-cased header is a comment header, else the first column
ClaimedColumn(header) ==
    LET hits == {i \in 1..Len(header) : Lower(header[i]) \in CommentHeaders}
    IN  IF hits = {} THEN 1 ELSE CHOOSE i \in hits : \A j \in hits : i <= j

\* the last column that bears the name of column c
LastNamed(header, c) ==
    CHOOSE i \in 1..Len(header) :
        /\ header[i] = header[c]
        /\ \A j \in 1..Len(header) : header[j] = header[c] => j <= i

\* the cell of a line in column c, empty where the line has no such cell
CellAt(line, c) == IF c <= Len(line) THEN line[c] ELSE <<>>

\* the lines whose cell in column c holds more than whitespace
NonBlank(lines, c) ==
    {i \in 1..Len(lines) : \E x \in 1..Len(CellAt(lines[i], c)) : ~IsSpace(CellAt(lines[i], c)[x])}

\* the j-th smallest member of a set of numbers
Nth(S, j) == CHOOSE i \in S : Cardinality({x \in S : x <= i}) = j

\* the results are the stripped cells of column c, one per non-blank line, in file order
ResultsFollowColumn(results, lines, c) ==
    /\ Len(results) = Cardinality(NonBlank(lines, c))
    /\ \A j \in 1..Len(results) :
           IsStripOf(results[j].comment, CellAt(lines[Nth(NonBlank(lines, c), j)], c))

\* a result carries the three classifications of its own text
Classified(result) ==
    /\ result.sentiment = [model |-> "sentiment", of |-> result.comment]
    /\ result.hate = [model |-> "hate", of |-> result.comment]
    /\ result.danger = [model |-> "danger", of |-> result.comment]

\* C1: in POST /upload/, the comment column is the first header whose lower-cased
\* name is comment, content, text or body, else the first column: the results of a
\* successful response are the non-blank cells of that column.
C1_FirstMatchingHeaderIsRead ==
    (Ran("upload") /\ resp.status = 200)
        => ResultsFollowColumn(resp.body.results, UploadedLines, ClaimedColumn(UploadedHeader))

\* C2: in POST /upload/, a successful response holds one result per data line whose
\* comment cell is non-empty after stripping, in file order, none for blank lines,
\* each with the stripped text and its sentiment, hate and danger classification.
\* The comment cell of a line is the one the handler reads: the cell under the chosen
\* header name, which is the last column of that name.
C2_OneResultPerNonBlankRow ==
    (Ran("upload") /\ resp.status = 200)
        => LET c == LastNamed(UploadedHeader, ClaimedColumn(UploadedHeader))
           IN  /\ ResultsFollowColumn(resp.body.results, UploadedLines, c)
               /\ \A j \in 1..Len(resp.body.results) : Classified(resp.body.results[j])
               /\ Len(effects) = 3 * Cardinality(NonBlank(UploadedLines, c))

\* a successful upload of two data lines, one of them blank, whose result was stripped
C2_Witness ==
    /\ Ran("upload") /\ resp.status = 200
    /\ Len(UploadedLines) = 2
    /\ Len(resp.body.results) = 1
    /\ \E i \in 1..2, c \in 1..2 :
           /\ c <= Len(UploadedLines[i])
           /\ Len(resp.body.results[1].comment) < Len(UploadedLines[i][c])
           /\ IsStripOf(resp.body.results[1].comment, UploadedLines[i][c])

\* the filename ends in ".csv"
EndsInCsv(f) ==
    /\ Len(f) >= 4
    /\ f[Len(f) - 3] = 46 /\ f[Len(f) - 2] = 99 /\ f[Len(f) - 1] = 115 /\ f[Len(f)] = 118

\* bytes below 224 that form valid UTF-8: every byte is ASCII, or opens a two-byte
\* sequence that the next byte continues, or continues the one the previous byte opened
WellFormedUtf8(bs) ==
    \A i \in 1..Len(bs) :
        \/ bs[i] <= 127
        \/ bs[i] \in 194..223 /\ i < Len(bs) /\ bs[i + 1] \in 128..191
        \/ bs[i] \in 128..191 /\ i > 1 /\ bs[i - 1] \in 194..223

\* C3: POST /upload/ answers 400 and runs no classifier whenever the filename does
\* not end in ".csv" or the bytes are not valid UTF-8, and the filename is checked
\* first: a wrong filename is reported whatever the content is.
C3_BadNameOrEncodingIs400 ==
    (Ran("upload") /\ \A i \in 1..Len(req.body.content) :
                          req.body.content[i] <= 223 \/ req.body.content[i] = 255)
        => /\ (~EndsInCsv(req.body.filename) \/ ~WellFormedUtf8(req.body.content))
                  => resp.status = 400 /\ effects = <<>>
           /\ ~EndsInCsv(req.body.filename)
                  => resp.body.detail = "Invalid file type. Please upload a CSV file."

\* a file of a wrong name whose bytes are not UTF-8 either and that holds a data line
C3_Witness ==
    /\ Ran("upload")
    /\ ~EndsInCsv(req.body.filename)
    /\ ~WellFormedUtf8(req.body.content)
    /\ \E i \in 1..Len(req.body.content) : req.body.content[i] = 107
    /\ resp.status = 400
    /\ resp.body.detail = "Invalid file type. Please upload a CSV file."

\* C4: in POST /upload/ errors are skipped per line: a line whose processing raises
\* (its comment cell is missing because the line is shorter than the header) is
\* skipped, and the other non-blank lines are still classified and returned in a
\* successful response.  Stated for the files no classifier fails on.
C4_RowErrorsAreSkipped ==
    (/\ Ran("upload")
     /\ env.unfit = {}
     /\ EndsInCsv(req.body.filename)
     /\ Utf8Decode(req.body.content).ok
     /\ UploadedHeader # <<>>)
        => /\ resp.status = 200
           /\ LET c == LastNamed(UploadedHeader, ClaimedColumn(UploadedHeader))
              IN  /\ ResultsFollowColumn(resp.body.results, UploadedLines, c)
                  /\ \A j \in 1..Len(resp.body.results) : Classified(resp.body.results[j])

\* the request carried a non-empty list of comments and reached summarize_comments
Summarized ==
    /\ Ran("summarize")
    /\ "comments" \in DOMAIN req.body
    /\ req.body.comments # <<>>

\* C5: POST /summarize/ answers 503 when the LLM call raises ollama.ResponseError and
\* 500 on every other failure of the call or of reading its reply, never a success body.
C5_LlmFailuresBecome503Or500 ==
    Summarized
        => /\ env.llm.kind = "ResponseError" => resp.status = 503
           /\ env.llm.kind \in {"ConnectionError", "KeyError"} => resp.status = 500
           /\ env.llm.kind # "ok" => resp.status # 200 /\ "summary" \notin DOMAIN resp.body

\* the LLM refused, and the caller got 503
C5_Witness ==
    /\ Summarized
    /\ env.llm.kind = "ResponseError"
    /\ resp.status = 503
    /\ Len(effects) = 1

\* C6: POST /summarize/ rejects an empty comments list with 400 without calling the
\* LLM, and the 400 is not turned into 500 or 503.
C6_EmptyListIs400 ==
    (/\ req.route = "summarize"
     /\ resp.status # 429
     /\ "comments" \in DOMAIN req.body
     /\ req.body.comments = <<>>)
        => /\ resp.status = 400
           /\ resp.body.detail = "No comments provided"
           /\ effects = <<>>

\* an empty list sent while the LLM is down
C6_Witness ==
    /\ req.route = "summarize"
    /\ "comments" \in DOMAIN req.body
    /\ req.body.comments = <<>>
    /\ env.llm.kind = "ResponseError"
    /\ resp.status = 400

\* where part i of a join with ", " begins (0-based)
RECURSIVE JoinStart(_, _)
JoinStart(parts, i) == IF i = 1 THEN 0 ELSE JoinStart(parts, i - 1) + Len(parts[i - 1]) + 2

\* text is the parts in order with ", " between them
IsJoinOf(text, parts) ==
    LET n == Len(parts)
    IN  /\ Len(text) = JoinStart(parts, n) + Len(parts[n])
        /\ \A i \in 1..n : \A x \in 1..Len(parts[i]) : text[JoinStart(parts, i) + x] = parts[i][x]
        /\ \A i \in 1..(n - 1) :
               /\ text[JoinStart(parts, i) + Len(parts[i]) + 1] = 44
               /\ text[JoinStart(parts, i) + Len(parts[i]) + 2] = 32

\* C7: for a non-empty list POST /summarize/ sends the LLM exactly one user message,
\* the prompt template with its placeholder replaced by the comments joined with
\* ", " in order, and on success returns the LLM's text unchanged and the list length.
C7_OnePromptOfJoinedComments ==
    Summarized
        => /\ Len(effects) = 1
           /\ effects[1].svc = "ollama.chat"
           /\ Len(effects[1].messages) = 1
           /\ effects[1].messages[1].role = "user"
           /\ effects[1].messages[1].content[1] = Instructions
           /\ IsJoinOf(Tail(effects[1].messages[1].content), req.body.comments)
           /\ env.llm.kind = "ok"
                  => /\ resp.status = 200
                     /\ resp.body.summary = env.llm.text
                     /\ resp.body.total_comments = Len(req.body.comments)

\* three comments, one holding ", " and one holding "{}", summarized
C7_Witness ==
    /\ Summarized
    /\ Len(req.body.comments) = 3
    /\ <<98, 44, 32, 99>> \in Range(req.body.comments)
    /\ <<123, 125>> \in Range(req.body.comments)
    /\ resp.status = 200
    /\ resp.body.summary = <<82>>

\* the three classifiers return for the text
Classifiable(text) == \A a \in 1..3 : <<Analyzers[a], text>> \notin env.unfit

\* content given: success, the content echoed unchanged with its classifications
CommentEchoed ==
    /\ resp.status = 200
    /\ resp.body.comment = req.body.content
    /\ Classified(resp.body)
    /\ Len(effects) = 3

\* C9 as stated: POST /comments/ has one error path, the validation error of a request
\* without content, raised before any classifier runs; every request with a string
\* content succeeds, echoing the content unchanged with its classifications.
C9_OnlyValidationFails ==
    (req.route = "comments" /\ resp.status # 429)
        => IF "content" \in DOMAIN req.body
           THEN CommentEchoed
           ELSE resp.status = 422 /\ effects = <<>>

\* C9, amended: a request without content fails validation before any classifier runs;
\* a request with a string content succeeds, echoing the content unchanged with its
\* classifications, when the three classifiers return for it; when one raises, the
\* exception is not caught and the response is a 500 without a success body.
C9_ValidationOrClassifierFails ==
    (req.route = "comments" /\ resp.status # 429)
        => IF "content" \notin DOMAIN req.body
           THEN resp.status = 422 /\ effects = <<>>
           ELSE IF Classifiable(req.body.content)
           THEN CommentEchoed
           ELSE resp.status = 500 /\ "comment" \notin DOMAIN resp.body

\* the empty string, classified and echoed
C9_Witness ==
    /\ req.route = "comments"
    /\ "content" \in DOMAIN req.body
    /\ req.body.content = <<>>
    /\ resp.status = 200
    /\ resp.body.comment = <<>>

\* the limits as the routes are said to have them
ClaimedLimit(route) ==
    CASE route = "root"      -> 60
      [] route = "comments"  -> 30
      [] route = "upload"    -> 10
      [] route = "summarize" -> 5

\* the requests of k whose handler ran in the window of k that is open now
RECURSIVE TotalSince(_, _)
TotalSince(log, t) ==
    IF log = <<>> THEN 0
    ELSE (IF log[1].at >= t THEN log[1].n ELSE 0) + TotalSince(Tail(log), t)

InWindow(k) == IF expirations[k] > now THEN TotalSince(handled[k], expirations[k] - 60) ELSE 0

\* C8 as stated: within one minute a caller has at most 60 requests handled by GET /,
\* 30 by POST /comments/, 10 by POST /upload/ and 5 by POST /summarize/ (the log
\* `handled` holds the requests handled less than a minute ago).
C8_AtMostLimitInAnyMinute ==
    \A k \in Keys : Total(handled[k]) <= ClaimedLimit(k[2])

\* a step that answers a request: the clock stands still
Answered == now' = now /\ req'.route \in Routes

\* C8, amended: within one window of the limiter (the minute that opens with the
\* caller's first counted request to the route) a caller has at most 60 requests
\* handled by GET /, 30 by POST /comments/, 10 by POST /upload/ and 5 by
\* POST /summarize/; a request over the limit is answered 429 without running the
\* handler; a request leaves the counts of every other caller and route as they were.
C8_AtMostLimitPerWindow ==
    /\ [](\A k \in Keys : InWindow(k) <= ClaimedLimit(k[2]))
    /\ [][Answered =>
             LET k == <<req'.ip, req'.route>>
             IN  /\ resp'.status = 429 <=> storage'[k] > ClaimedLimit(req'.route)
                 /\ resp'.status = 429 => effects' = <<>> /\ handled' = handled
                 /\ resp'.status # 429 => Total(handled'[k]) = Total(handled[k]) + 1
                 /\ \A j \in Keys \ {k} :
                        /\ storage'[j] = storage[j]
                        /\ expirations'[j] = expirations[j]
                        /\ handled'[j] = handled[j]]_vars

\* the 61st GET / of a caller within a window is refused while the other caller has
\* a request of its own counted on the same route
C8_Witness ==
    /\ req = [ip |-> "10.0.0.1", route |-> "root", body |-> EmptyObject]
    /\ resp.status = 429
    /\ storage[<<"10.0.0.1", "root">>] = 61
    /\ InWindow(<<"10.0.0.1", "root">>) = 60
    /\ storage[<<"10.0.0.2", "root">>] = 1

====
